---------------------------- MODULE Spec2Model ----------------------------
(***************************************************************************)
(* Model of setup.py, the provisioning script of did-credential-manager.   *)
(*                                                                         *)
(* main() checks that npm and yarn are on the PATH, reads two secrets from *)
(* standard input, runs `npm install` in the four NPM_DIRS and `yarn       *)
(* install` in YARN_DIR, and then writes three .env files.                 *)
(*                                                                         *)
(* Text is modelled as a sequence of atoms.  A character typed by the      *)
(* operator is an atom of its own; a literal segment of an f-string of the *)
(* source (such as WALLET_PRIVATE_KEY=) is one atom, and the double quote  *)
(* and the line feed the f-strings contain are atoms of their own, so that *)
(* a typed double quote is the same atom as a literal one.                 *)
(***************************************************************************)
EXTENDS Naturals, Sequences, FiniteSets, TLC

VARIABLES
    pc,          \* the statement of main() the process is at
    idx,         \* position of the running `for` loop in its list
    PATH,        \* the commands shutil.which finds on the execution path
    wallet_key,  \* main's local wallet_key
    infura_id,   \* main's local infura_id
    typed,       \* the raw lines input() has read in this run
    stdout,      \* what the run has printed, prompts included
    installs,    \* subprocess.run calls of this run: <<command, cwd, result>>
    installed,   \* directories whose dependencies are installed (on disk)
    writes,      \* write_text calls of this run: <<directory, result>>
    fs,          \* the .env files on disk: directory -> contents
    exit_code,   \* <<>> while the process runs, <<code>> once it has ended
    uncaught,    \* the exception that propagated out of main(), "" if none
    run,         \* number of the current invocation of the script
    prev         \* <<>>, or what the previous invocation read and left on
                 \* disk, if it ended with status 0

vars == <<pc, idx, PATH, wallet_key, infura_id, typed, stdout, installs,
          installed, writes, fs, exit_code, uncaught, run, prev>>

---------------------------------------------------------------------------
(* Bounds of the model. *)

\* longest line the operator types in the single-run specification
MaxLen == 2

\* longest line the operator types in the specification with re-runs
RerunLen == 2

\* number of invocations of the script in the specification with re-runs
MaxRuns == 2

---------------------------------------------------------------------------
(* Configuration constants: setup.py lines 7-25. *)

NPM_DIRS == << "./demo/bank-app/frontend",
               "./demo/bank-app/backend",
               "./demo/dmv-app/frontend",
               "./demo/dmv-app/backend" >>

YARN_DIR == "./snap"

ENV_DIRS_BACKEND == << "./demo/bank-app/backend",
                       "./demo/dmv-app/backend" >>

ENV_DIR_SNAP == "./snap/packages/snap"

---------------------------------------------------------------------------
(* Text. *)

QUOTE == "\""

LF == "\n"

\* what the operator's keyboard produces in the model: a letter, a double
\* quote and a blank.  input() returns one line without its line feed, so LF
\* is never typed into a secret.
Chars == {"a", QUOTE, " "}

\* the characters str.strip() removes
Whitespace == {" ", "\t", "\r", LF}

\* the keys used where the script is run several times: a letter
RerunChars == {"a"}

\* all lines of at most n characters of C
LinesUpTo(C, n) == UNION { [1..k -> C] : k \in 0..n }

RECURSIVE lstrip(_)
lstrip(s) == IF s # <<>> /\ Head(s) \in Whitespace THEN lstrip(Tail(s)) ELSE s

RECURSIVE rstrip(_)
rstrip(s) ==
    IF s # <<>> /\ s[Len(s)] \in Whitespace
    THEN rstrip(SubSeq(s, 1, Len(s) - 1))
    ELSE s

\* a plausible slip: only the leading whitespace is removed
strip_leading_only(s) == lstrip(s)

\* str.strip(), as called on each line read (lines 61-62)
strip(s) == rstrip(lstrip(s))


---------------------------------------------------------------------------
(* The rendered .env contents: the f-strings of lines 40 and 46. *)

\* a plausible slip: the two secrets interpolated the wrong way round
backend_env_contents_swapped(wallet, infura) ==
    <<"WALLET_PRIVATE_KEY=", QUOTE>> \o infura \o <<QUOTE, LF>>
    \o <<"INFURA_PROJECT_ID=", QUOTE>> \o wallet \o <<QUOTE, LF>>

\* env_contents of write_env_file_backend (line 40)
backend_env_contents(wallet, infura) ==
    <<"WALLET_PRIVATE_KEY=", QUOTE>> \o wallet \o <<QUOTE, LF>>
    \o <<"INFURA_PROJECT_ID=", QUOTE>> \o infura \o <<QUOTE, LF>>

\* a plausible slip: the snap file rendered from the backend template, with
\* the wallet key main() holds
snap_env_contents_with_key(infura) ==
    <<"WALLET_PRIVATE_KEY=", QUOTE>> \o wallet_key \o <<QUOTE, LF>>
    \o <<"INFURA_PROJECT_ID=", QUOTE>> \o infura \o <<QUOTE, LF>>
    \o <<"COMPANION_APP_ORIGIN=", QUOTE, "http://localhost:8000", QUOTE, LF>>

\* env_contents of write_env_file_snap (line 46)
snap_env_contents(infura) ==
    <<"INFURA_PROJECT_ID=", QUOTE>> \o infura \o <<QUOTE, LF>>
    \o <<"COMPANION_APP_ORIGIN=", QUOTE, "http://localhost:8000", QUOTE, LF>>

---------------------------------------------------------------------------
(* The environment. *)

Tools == {"npm", "yarn"}

\* the directories that receive a .env file
EnvDirs == {ENV_DIRS_BACKEND[i] : i \in 1..Len(ENV_DIRS_BACKEND)} \cup {ENV_DIR_SNAP}

\* what a .env file may hold before the first run
StaleContents == { <<"STALE=", QUOTE, "1", QUOTE, LF>> }

\* the file systems before the first run: each .env absent or stale
InitialFileSystems ==
    UNION { [D -> StaleContents] : D \in SUBSET EnvDirs }

\* how a subprocess.run([command, "install"], cwd=path, check=True) ends:
\* exit status zero, a non-zero exit status (CalledProcessError), or the
\* child cannot be started at all (OSError: cwd or executable missing)
InstallResults == {"ok", "nonzero", "oserror"}

\* the file system with the file of directory d holding data
Put(files, d, data) ==
    [e \in (DOMAIN files) \cup {d} |-> IF e = d THEN data ELSE files[e]]

\* what open(..., "w") leaves of a file before anything is written to it
Truncated == <<>>

---------------------------------------------------------------------------
(* Ways a statement ends the process. *)

\* sys.exit(code)
sys_exit(code) ==
    /\ pc' = "exited"
    /\ exit_code' = <<code>>
    /\ uncaught' = uncaught

\* an exception nothing catches: the interpreter prints the traceback and
\* ends the process with status 1
raise(exc) ==
    /\ pc' = "exited"
    /\ exit_code' = <<1>>
    /\ uncaught' = exc

\* the statement completes and control moves on to statement `next`
goto(next) ==
    /\ pc' = next
    /\ exit_code' = exit_code
    /\ uncaught' = uncaught

---------------------------------------------------------------------------
(* The functions of setup.py. *)

\* a plausible slip: the lookup result is not compared with None
check_command_exists_always(command) == TRUE

\* check_command_exists (lines 27-28)
check_command_exists(command) == command \in PATH

\* a plausible slip: `sys.exit(1)` left out of the except clause, so that a
\* failed install is reported and main() carries on
run_install_no_exit(command, path, returned) ==
    \E result \in InstallResults :
        /\ installs' = Append(installs, <<command, path, result>>)
        /\ \/ /\ result = "ok"
              /\ stdout' = Append(stdout, <<"running", command, path>>)
              /\ installed' = installed \cup {path}
              /\ returned
           \/ /\ result = "nonzero"
              /\ stdout' = stdout \o << <<"running", command, path>>,
                                        <<"failed", command, path>> >>
              /\ installed' = installed
              /\ returned
           \/ /\ result = "oserror"
              /\ stdout' = Append(stdout, <<"running", command, path>>)
              /\ installed' = installed
              /\ idx' = idx
              /\ raise("OSError")

\* a plausible slip: subprocess.run without check=True, so that a failed
\* install raises nothing and is neither reported nor fatal
run_install_unchecked(command, path, returned) ==
    \E result \in InstallResults :
        /\ installs' = Append(installs, <<command, path, result>>)
        /\ \/ /\ result = "ok"
              /\ stdout' = Append(stdout, <<"running", command, path>>)
              /\ installed' = installed \cup {path}
              /\ returned
           \/ /\ result = "nonzero"
              /\ stdout' = Append(stdout, <<"running", command, path>>)
              /\ installed' = installed
              /\ returned
           \/ /\ result = "oserror"
              /\ stdout' = Append(stdout, <<"running", command, path>>)
              /\ installed' = installed
              /\ idx' = idx
              /\ raise("OSError")

\* run_install (lines 30-36); `returned` is what the caller does next
run_install(command, path, returned) ==
    \E result \in InstallResults :
        /\ installs' = Append(installs, <<command, path, result>>)
        /\ \/ /\ result = "ok"
              /\ stdout' = Append(stdout, <<"running", command, path>>)
              /\ installed' = installed \cup {path}
              /\ returned
           \/ /\ result = "nonzero"
              /\ stdout' = stdout \o << <<"running", command, path>>,
                                        <<"failed", command, path>> >>
              /\ installed' = installed
              /\ idx' = idx
              /\ sys_exit(1)
           \/ /\ result = "oserror"
              /\ stdout' = Append(stdout, <<"running", command, path>>)
              /\ installed' = installed
              /\ idx' = idx
              /\ raise("OSError")

\* a plausible slip: the file opened in append mode
write_text_append(path, data, returned) ==
    \/ /\ fs' = Put(fs, path, (IF path \in DOMAIN fs THEN fs[path] ELSE <<>>) \o data)
       /\ writes' = Append(writes, <<path, "ok">>)
       /\ stdout' = Append(stdout, <<"wrote", path>>)
       /\ returned
    \/ /\ fs' = fs
       /\ writes' = Append(writes, <<path, "open_failed">>)
       /\ UNCHANGED <<stdout, idx>>
       /\ raise("OSError")
    \/ /\ fs' = Put(fs, path, Truncated)
       /\ writes' = Append(writes, <<path, "write_failed">>)
       /\ UNCHANGED <<stdout, idx>>
       /\ raise("OSError")

\* a plausible slip: the write wrapped in try/except, a failure swallowed
write_text_swallow(path, data, returned) ==
    \/ /\ fs' = Put(fs, path, data)
       /\ writes' = Append(writes, <<path, "ok">>)
       /\ stdout' = Append(stdout, <<"wrote", path>>)
       /\ returned
    \/ /\ fs' = fs
       /\ writes' = Append(writes, <<path, "open_failed">>)
       /\ stdout' = stdout
       /\ returned
    \/ /\ fs' = Put(fs, path, Truncated)
       /\ writes' = Append(writes, <<path, "write_failed">>)
       /\ stdout' = stdout
       /\ returned

\* (Path(path) / ".env").write_text(data) and the print after it (lines
\* 41-42, 47-48).  The write replaces the file; it may instead fail before
\* the file is opened (the file is as it was) or after it was opened and
\* truncated (data, far shorter than the stream's buffer, goes to the file in
\* one piece when the stream is closed, so the file is left empty), and the
\* OSError is not caught.
write_text(path, data, returned) ==
    \/ /\ fs' = Put(fs, path, data)
       /\ writes' = Append(writes, <<path, "ok">>)
       /\ stdout' = Append(stdout, <<"wrote", path>>)
       /\ returned
    \/ /\ fs' = fs
       /\ writes' = Append(writes, <<path, "open_failed">>)
       /\ UNCHANGED <<stdout, idx>>
       /\ raise("OSError")
    \/ /\ fs' = Put(fs, path, Truncated)
       /\ writes' = Append(writes, <<path, "write_failed">>)
       /\ UNCHANGED <<stdout, idx>>
       /\ raise("OSError")

\* write_env_file_backend (lines 38-42)
write_env_file_backend(path, wallet, infura, returned) ==
    write_text(path, backend_env_contents(wallet, infura), returned)

\* write_env_file_snap (lines 44-48)
write_env_file_snap(path, infura, returned) ==
    write_text(path, snap_env_contents(infura), returned)

---------------------------------------------------------------------------
(* main(), one action per statement (lines 50-74). *)

\* a plausible slip: `sys.exit()` without the status, which exits with 0
CheckNpmExitZero ==
    /\ pc = "check_npm"
    /\ IF check_command_exists("npm")
       THEN /\ stdout' = Append(stdout, <<"starting">>)
            /\ goto("check_yarn")
       ELSE /\ stdout' = stdout \o << <<"starting">>, <<"missing", "npm">> >>
            /\ sys_exit(0)
    /\ UNCHANGED <<idx, PATH, wallet_key, infura_id, typed, installs,
                   installed, writes, fs, run, prev>>

\* lines 51-55: the banner, then the check for npm
CheckNpm ==
    /\ pc = "check_npm"
    /\ IF check_command_exists("npm")
       THEN /\ stdout' = Append(stdout, <<"starting">>)
            /\ goto("check_yarn")
       ELSE /\ stdout' = stdout \o << <<"starting">>, <<"missing", "npm">> >>
            /\ sys_exit(1)
    /\ UNCHANGED <<idx, PATH, wallet_key, infura_id, typed, installs,
                   installed, writes, fs, run, prev>>

\* lines 57-59: the check for yarn
CheckYarn ==
    /\ pc = "check_yarn"
    /\ IF check_command_exists("yarn")
       THEN /\ stdout' = stdout
            /\ goto("prompt_wallet")
       ELSE /\ stdout' = Append(stdout, <<"missing", "yarn">>)
            /\ sys_exit(1)
    /\ UNCHANGED <<idx, PATH, wallet_key, infura_id, typed, installs,
                   installed, writes, fs, run, prev>>

\* line 61: input() prints the prompt and reads a line of Lines, or finds
\* standard input at its end and raises EOFError
PromptWallet(Lines) ==
    /\ pc = "prompt_wallet"
    /\ stdout' = Append(stdout, <<"prompt", "wallet_key">>)
    /\ \/ \E line \in Lines :
              /\ typed' = Append(typed, line)
              /\ wallet_key' = strip(line)
              /\ goto("prompt_infura")
       \/ /\ UNCHANGED <<typed, wallet_key>>
          /\ raise("EOFError")
    /\ UNCHANGED <<idx, PATH, infura_id, installs, installed, writes, fs,
                   run, prev>>

\* line 62
PromptInfura(Lines) ==
    /\ pc = "prompt_infura"
    /\ stdout' = Append(stdout, <<"prompt", "infura_id">>)
    /\ \/ \E line \in Lines :
              /\ typed' = Append(typed, line)
              /\ infura_id' = strip(line)
              /\ goto("npm_install")
       \/ /\ UNCHANGED <<typed, infura_id>>
          /\ raise("EOFError")
    /\ UNCHANGED <<idx, PATH, wallet_key, installs, installed, writes, fs,
                   run, prev>>

\* a plausible slip: the `run_install("yarn", YARN_DIR)` statement left out
NpmInstallThenWrite ==
    /\ pc = "npm_install"
    /\ run_install("npm", NPM_DIRS[idx],
                   IF idx < Len(NPM_DIRS)
                   THEN idx' = idx + 1 /\ goto("npm_install")
                   ELSE idx' = 1 /\ goto("write_backend"))
    /\ UNCHANGED <<PATH, wallet_key, infura_id, typed, writes, fs, run, prev>>

\* lines 64-65: one iteration of the loop over NPM_DIRS
NpmInstall ==
    /\ pc = "npm_install"
    /\ run_install("npm", NPM_DIRS[idx],
                   IF idx < Len(NPM_DIRS)
                   THEN idx' = idx + 1 /\ goto("npm_install")
                   ELSE idx' = 1 /\ goto("yarn_install"))
    /\ UNCHANGED <<PATH, wallet_key, infura_id, typed, writes, fs, run, prev>>

\* line 67
YarnInstall ==
    /\ pc = "yarn_install"
    /\ run_install("yarn", YARN_DIR, idx' = 1 /\ goto("write_backend"))
    /\ UNCHANGED <<PATH, wallet_key, infura_id, typed, writes, fs, run, prev>>

\* lines 69-70: one iteration of the loop over ENV_DIRS_BACKEND
WriteBackend ==
    /\ pc = "write_backend"
    /\ write_env_file_backend(ENV_DIRS_BACKEND[idx], wallet_key, infura_id,
                   IF idx < Len(ENV_DIRS_BACKEND)
                   THEN idx' = idx + 1 /\ goto("write_backend")
                   ELSE idx' = 1 /\ goto("write_snap"))
    /\ UNCHANGED <<PATH, wallet_key, infura_id, typed, installs, installed,
                   run, prev>>

\* line 72
WriteSnap ==
    /\ pc = "write_snap"
    /\ write_env_file_snap(ENV_DIR_SNAP, infura_id,
                           idx' = 1 /\ goto("complete"))
    /\ UNCHANGED <<PATH, wallet_key, infura_id, typed, installs, installed,
                   run, prev>>

\* line 74, and the return from main(): the process ends with status 0
Complete ==
    /\ pc = "complete"
    /\ stdout' = Append(stdout, <<"complete">>)
    /\ sys_exit(0)
    /\ UNCHANGED <<idx, PATH, wallet_key, infura_id, typed, installs,
                   installed, writes, fs, run, prev>>

\* lines 76-77, once more: the operator invokes the script again.  The
\* process starts afresh; what is on disk stays.
Rerun ==
    /\ pc = "exited"
    /\ run < MaxRuns
    /\ prev' = IF exit_code = <<0>>
               THEN << [wallet_key |-> wallet_key,
                        infura_id  |-> infura_id,
                        fs         |-> fs] >>
               ELSE <<>>
    /\ run' = run + 1
    /\ pc' = "check_npm"
    /\ idx' = 1
    /\ wallet_key' = <<>>
    /\ infura_id' = <<>>
    /\ typed' = <<>>
    /\ stdout' = <<>>
    /\ installs' = <<>>
    /\ writes' = <<>>
    /\ exit_code' = <<>>
    /\ uncaught' = ""
    /\ UNCHANGED <<PATH, installed, fs>>

---------------------------------------------------------------------------
(* Specifications. *)

\* The state when the script is invoked: any subset of the tools on the
\* PATH, any of the initial file systems, nothing installed.  The locals of
\* main() are unbound; they are shown as empty and are not read before
\* lines 61-62 assign them.
Init ==
    /\ pc = "check_npm"
    /\ idx = 1
    /\ PATH \in SUBSET Tools
    /\ wallet_key = <<>>
    /\ infura_id = <<>>
    /\ typed = <<>>
    /\ stdout = <<>>
    /\ installs = <<>>
    /\ installed = {}
    /\ writes = <<>>
    /\ fs \in InitialFileSystems
    /\ exit_code = <<>>
    /\ uncaught = ""
    /\ run = 1
    /\ prev = <<>>

\* one invocation of the script
Next ==
    \/ CheckNpm
    \/ CheckYarn
    \/ PromptWallet(LinesUpTo(Chars, MaxLen))
    \/ PromptInfura(LinesUpTo(Chars, MaxLen))
    \/ NpmInstall
    \/ YarnInstall
    \/ WriteBackend
    \/ WriteSnap
    \/ Complete

Spec == Init /\ [][Next]_vars

\* the script invoked up to MaxRuns times, one invocation after the other
NextRerun ==
    \/ CheckNpm
    \/ CheckYarn
    \/ PromptWallet(LinesUpTo(RerunChars, RerunLen))
    \/ PromptInfura(LinesUpTo(RerunChars, RerunLen))
    \/ NpmInstall
    \/ YarnInstall
    \/ WriteBackend
    \/ WriteSnap
    \/ Complete
    \/ Rerun

SpecRerun == Init /\ [][NextRerun]_vars

---------------------------------------------------------------------------
(* Vocabulary of the properties. *)

\* the process has ended
Exited == pc = "exited"

\* the number of prompts the run has issued
Prompts == Cardinality({k \in 1..Len(stdout) : stdout[k][1] = "prompt"})

\* the confirmation message of line 74 has been printed
ConfirmationPrinted == \E k \in 1..Len(stdout) : stdout[k] = <<"complete">>

\* a tool is missing from the execution path
MissingTool == Tools \ PATH # {}

\* the ordered sequence of install invocations
InstallPlan ==
    << <<"npm", "./demo/bank-app/frontend">>,
       <<"npm", "./demo/bank-app/backend">>,
       <<"npm", "./demo/dmv-app/frontend">>,
       <<"npm", "./demo/dmv-app/backend">>,
       <<"yarn", "./snap">> >>

\* the order of the .env writes
WritePlan ==
    << "./demo/bank-app/backend", "./demo/dmv-app/backend",
       "./snap/packages/snap" >>

\* an install invocation of this run has failed
InstallFailed == \E k \in 1..Len(installs) : installs[k][3] # "ok"

\* all five installs were invoked, in order, and succeeded
AllInstallsOk ==
    /\ Len(installs) = Len(InstallPlan)
    /\ \A k \in 1..Len(installs) :
           /\ <<installs[k][1], installs[k][2]>> = InstallPlan[k]
           /\ installs[k][3] = "ok"

\* a write of this run has failed
WriteFailed == \E k \in 1..Len(writes) : writes[k][2] # "ok"

\* all three .env files were written, in order
AllWritesOk ==
    /\ Len(writes) = Len(WritePlan)
    /\ \A k \in 1..Len(writes) : writes[k] = <<WritePlan[k], "ok">>

\* the run was a full success
FullSuccess == PATH = Tools /\ AllInstallsOk /\ AllWritesOk

\* the phase a printed message belongs to
Phase(msg) ==
    CASE msg[1] \in {"starting", "missing"} -> 1
      [] msg[1] = "prompt"                  -> 2
      [] msg[1] \in {"running", "failed"}   -> 3
      [] msg[1] = "wrote"                   -> 4
      [] msg[1] = "complete"                -> 5

\* the lines of a text: the pieces its line feeds end (and what follows the
\* last line feed, if anything does)
RECURSIVE SplitLinesFrom(_, _)
SplitLinesFrom(text, line) ==
    IF text = <<>>
    THEN IF line = <<>> THEN <<>> ELSE <<line>>
    ELSE IF Head(text) = LF
         THEN <<line>> \o SplitLinesFrom(Tail(text), <<>>)
         ELSE SplitLinesFrom(Tail(text), Append(line, Head(text)))

SplitLines(text) == SplitLinesFrom(text, <<>>)

\* the line NAME="value"
Assignment(name, value) == <<name, QUOTE>> \o value \o <<QUOTE>>

\* text consists of exactly the given lines, each ended by a line feed
HasExactlyLines(text, lines) ==
    /\ text # <<>>
    /\ text[Len(text)] = LF
    /\ SplitLines(text) = lines

\* the two lines of a backend .env for secrets w and i
BackendLines(w, i) ==
    << Assignment("WALLET_PRIVATE_KEY=", w), Assignment("INFURA_PROJECT_ID=", i) >>

\* the two lines of the snap .env for Infura ID i
SnapLines(i) ==
    << Assignment("INFURA_PROJECT_ID=", i),
       Assignment("COMPANION_APP_ORIGIN=", <<"http://localhost:8000">>) >>

\* the three .env files exist and hold what is specified for w and i
EnvFilesHold(files, w, i) ==
    /\ DOMAIN files = EnvDirs
    /\ HasExactlyLines(files["./demo/bank-app/backend"], BackendLines(w, i))
    /\ HasExactlyLines(files["./demo/dmv-app/backend"], BackendLines(w, i))
    /\ HasExactlyLines(files["./snap/packages/snap"], SnapLines(i))

\* s has whitespace neither at its start nor at its end
Trimmed(s) == s = <<>> \/ (s[1] \notin Whitespace /\ s[Len(s)] \notin Whitespace)

\* t is s without its leading and trailing whitespace
IsTrimOf(t, s) ==
    /\ Trimmed(t)
    /\ \E i, j \in 0..Len(s) :
           /\ i + j <= Len(s)
           /\ t = SubSeq(s, i + 1, Len(s) - j)
           /\ \A k \in 1..i : s[k] \in Whitespace
           /\ \A k \in (Len(s) - j + 1)..Len(s) : s[k] \in Whitespace

\* the write of the .env of directory d completed in this run
Written(d) == \E k \in 1..Len(writes) : writes[k] = <<d, "ok">>

\* the atoms of a text
Atoms(text) == {text[k] : k \in 1..Len(text)}

---------------------------------------------------------------------------
(* Properties. *)

\* C1: when npm, yarn or both are missing from the execution path, the run
\* exits with status 1, and in it no prompt is issued, no line is read, no
\* install is invoked and no .env file is written or changed.
C1_MissingToolExitsBeforeAnyWork ==
    /\ [](MissingTool =>
            /\ pc \in {"check_npm", "check_yarn", "exited"}
            /\ (Exited => exit_code = <<1>> /\ uncaught = "")
            /\ Prompts = 0
            /\ typed = <<>>
            /\ installs = <<>>
            /\ installed = {}
            /\ writes = <<>>)
    /\ [][MissingTool => fs' = fs]_vars

\* C1 witness: yarn alone is missing and the run has ended
C1_Witness == PATH = {"npm"} /\ Exited /\ exit_code = <<1>>

\* C2: once an install invocation has failed, the process has ended with
\* status 1 without the confirmation, no .env write has been attempted in
\* the run, and no step of such a run changes a .env file.
C2_FailedInstallWritesNothing ==
    /\ [](InstallFailed =>
            /\ Exited
            /\ exit_code = <<1>>
            /\ writes = <<>>
            /\ ~ConfirmationPrinted)
    /\ [][InstallFailed' => fs' = fs]_vars

\* C2 witness: the yarn install, the last of the sequence, fails with a
\* non-zero exit status where stale .env files exist
C2_Witness ==
    /\ Len(installs) = 5
    /\ installs[5] = <<"yarn", "./snap", "nonzero">>
    /\ DOMAIN fs = EnvDirs
    /\ Exited

\* C5: the phases occur in the order tool-check, secret-collection,
\* installs, file-writes: what the run prints is ordered by phase; a prompt
\* is issued only after both tool checks passed; an install is invoked only
\* after both secrets were read; a .env write is attempted only after all
\* five installs succeeded.
C5_PhasesInFixedOrder ==
    /\ \A j, k \in 1..Len(stdout) : j < k => Phase(stdout[j]) <= Phase(stdout[k])
    /\ Prompts > 0 =>
          /\ PATH = Tools
          /\ stdout[1] = <<"starting">>
          /\ \A k \in 1..Len(stdout) : stdout[k][1] # "missing"
    /\ installs # <<>> => Prompts = 2 /\ Len(typed) = 2
    /\ writes # <<>> => AllInstallsOk

\* C5 witness: a run that went through all four phases
C5_Witness == Prompts = 2 /\ AllInstallsOk /\ writes # <<>> /\ Exited

\* C6: the installs are invoked in the order of NPM_DIRS, then YARN_DIR,
\* each directory at most once; an invocation that fails is the last one of
\* the run and ends the process; a successful install stays installed.
C6_InstallsInOrderAbortOnFailure ==
    /\ [](/\ Len(installs) <= Len(InstallPlan)
          /\ \A k \in 1..Len(installs) :
                 /\ <<installs[k][1], installs[k][2]>> = InstallPlan[k]
                 /\ installs[k][3] = "ok" => installs[k][2] \in installed
                 /\ installs[k][3] # "ok" =>
                        /\ k = Len(installs)
                        /\ Exited
                        /\ exit_code = <<1>>
          /\ (installs # <<>> /\ installs[Len(installs)][3] = "nonzero") =>
                 /\ stdout[Len(stdout)] =
                        <<"failed", installs[Len(installs)][1],
                                    installs[Len(installs)][2]>>
                 /\ uncaught = "")
    /\ [][installed \subseteq installed']_vars

\* C6 witness: the third install exits with a non-zero status after two
\* installs succeeded, and the process has ended
C6_Witness ==
    /\ Len(installs) = 3
    /\ installs[3][3] = "nonzero"
    /\ installed = {"./demo/bank-app/frontend", "./demo/bank-app/backend"}
    /\ Exited

\* C7: the process ends with status 0 exactly when the run was a full
\* success, and the confirmation is printed exactly then; every other end,
\* a missing tool and a failed install among them, has status 1; the
\* confirmation is printed only as the last act of a run that ends with
\* status 0.
C7_ExitZeroIffFullSuccess ==
    /\ Exited =>
          /\ exit_code \in {<<0>>, <<1>>}
          /\ exit_code = <<0>> <=> FullSuccess
          /\ ConfirmationPrinted <=> FullSuccess
          /\ (MissingTool \/ InstallFailed) => exit_code = <<1>>
    /\ ConfirmationPrinted => Exited /\ exit_code = <<0>>

\* C7 witness: a fully successful run has ended
C7_Witness == Exited /\ FullSuccess /\ ConfirmationPrinted

\* C3 as stated: with both tools present, all five installs succeeded and
\* non-empty secrets, the ended run has left the three .env files as
\* specified.  (A failed .env write refutes it.)
C3_AsStated ==
    (Exited /\ PATH = Tools /\ AllInstallsOk
        /\ wallet_key # <<>> /\ infura_id # <<>>)
    => EnvFilesHold(fs, wallet_key, infura_id)

\* C3, amended: with both tools present, all five installs succeeded, none
\* of the three .env writes failed and non-empty secrets w and i, the ended
\* run has left each backend .env with exactly the lines
\* WALLET_PRIVATE_KEY="w" and INFURA_PROJECT_ID="i", and the snap .env with
\* exactly INFURA_PROJECT_ID="i" and COMPANION_APP_ORIGIN="http://localhost:8000";
\* w and i are the secrets as collected, which are the typed lines
\* themselves when these have no surrounding whitespace.
C3_EnvFilesAfterFullSuccess ==
    (Exited /\ PATH = Tools /\ AllInstallsOk /\ AllWritesOk
        /\ wallet_key # <<>> /\ infura_id # <<>>)
    => /\ EnvFilesHold(fs, wallet_key, infura_id)
       /\ Trimmed(typed[1]) => wallet_key = typed[1]
       /\ Trimmed(typed[2]) => infura_id = typed[2]

\* C3 witness: a full success whose wallet key contains a double quote
C3_Witness ==
    /\ Exited
    /\ FullSuccess
    /\ wallet_key = <<"a", QUOTE>>
    /\ infura_id = <<"a">>
    /\ typed[1] = wallet_key

\* C8: whatever two lines are typed, the run issues exactly two prompts,
\* holds the trimmed lines as wallet_key and infura_id from then on, stands
\* at the first install right after reading them, and writes the trimmed
\* values into every .env file it writes.
C8_SecretsAcceptedAndTrimmed ==
    Len(typed) = 2 =>
        /\ Prompts = 2
        /\ IsTrimOf(wallet_key, typed[1])
        /\ IsTrimOf(infura_id, typed[2])
        /\ installs = <<>> => pc = "npm_install" /\ idx = 1 /\ exit_code = <<>>
        /\ \A k \in 1..Len(ENV_DIRS_BACKEND) :
               Written(ENV_DIRS_BACKEND[k]) =>
                   HasExactlyLines(fs[ENV_DIRS_BACKEND[k]],
                                   BackendLines(wallet_key, infura_id))
        /\ Written(ENV_DIR_SNAP) =>
               HasExactlyLines(fs[ENV_DIR_SNAP], SnapLines(infura_id))

\* C8 witness: an empty wallet line and an Infura line of blanks only were
\* typed, and the run went on to full success
C8_Witness ==
    /\ typed = << <<>>, <<" ", " ">> >>
    /\ Exited
    /\ FullSuccess

\* a further case of C8: a leading blank in one line, a trailing one in the
\* other, and the snap .env written
C8_WitnessTrimmed ==
    /\ Len(typed) = 2
    /\ typed[1] = <<" ", "a">>
    /\ typed[2] = <<"a", " ">>
    /\ Written(ENV_DIR_SNAP)

\* C10: the .env writes are attempted in the order bank-app backend,
\* dmv-app backend, snap; a write that fails is the last of the run and ends
\* the process with a non-zero status through the uncaught OSError, without
\* the confirmation; the files written before it keep their new contents.
C10_WriteFailureAbortsWithoutCleanup ==
    /\ Len(writes) <= Len(WritePlan)
    /\ \A k \in 1..Len(writes) :
           /\ writes[k][1] = WritePlan[k]
           /\ writes[k][2] = "ok" =>
                  /\ WritePlan[k] \in DOMAIN fs
                  /\ fs[WritePlan[k]] =
                         IF k <= 2
                         THEN backend_env_contents(wallet_key, infura_id)
                         ELSE snap_env_contents(infura_id)
                  /\ \E m \in 1..Len(stdout) : stdout[m] = <<"wrote", WritePlan[k]>>
           /\ writes[k][2] # "ok" =>
                  /\ k = Len(writes)
                  /\ Exited
                  /\ exit_code # <<0>>
                  /\ uncaught = "OSError"
                  /\ ~ConfirmationPrinted
                  /\ stdout[Len(stdout)] # <<"wrote", WritePlan[k]>>

\* C10 witness: the snap write fails after both backend files were written
C10_Witness ==
    /\ Len(writes) = 3
    /\ writes[1][2] = "ok"
    /\ writes[2][2] = "ok"
    /\ writes[3][2] = "open_failed"
    /\ Exited

\* the previous invocation ended with status 0 after reading the secrets
\* this one has read
SameInputsAsPrevious ==
    /\ prev # <<>>
    /\ prev[1].wallet_key = wallet_key
    /\ prev[1].infura_id = infura_id

\* C4 as stated: a second run with the same inputs and successful installs
\* ends with the three .env files holding what they held after the first.
\* (A .env write of the second run that fails after truncating the file
\* refutes it.)
C4_AsStated ==
    (Exited /\ SameInputsAsPrevious /\ AllInstallsOk) => fs = prev[1].fs

\* C4, amended: when the script is run twice with the same inputs,
\* successful installs and no failed .env write, the three .env files hold
\* the same contents after the second run as after the first; what a run
\* leaves is rendered from its inputs alone, with nothing of what the files
\* held before the run.
C4_Idempotent ==
    (Exited /\ AllInstallsOk /\ AllWritesOk) =>
        /\ SameInputsAsPrevious => fs = prev[1].fs
        /\ DOMAIN fs = EnvDirs
        /\ \A d \in EnvDirs :
               /\ "STALE=" \notin Atoms(fs[d])
               /\ Cardinality({k \in 1..Len(fs[d]) : fs[d][k] = LF}) = 2

\* C4 witness: the second of two fully successful runs with the same
\* non-empty inputs has ended
C4_Witness ==
    /\ Exited
    /\ FullSuccess
    /\ SameInputsAsPrevious
    /\ wallet_key # <<>>
    /\ infura_id # <<>>

\* C9: once a run has written the snap .env, the file holds exactly the
\* lines INFURA_PROJECT_ID="i" and COMPANION_APP_ORIGIN="http://localhost:8000"
\* for the run's Infura ID i and no WALLET_PRIVATE_KEY entry; it equals the
\* snap .env of a previous run with the same Infura ID, whatever the wallet
\* keys of the two runs; a backend .env the run has written carries the
\* wallet key.
C9_SnapEnvIndependentOfWalletKey ==
    Written(ENV_DIR_SNAP) =>
        /\ HasExactlyLines(fs[ENV_DIR_SNAP], SnapLines(infura_id))
        /\ "WALLET_PRIVATE_KEY=" \notin Atoms(fs[ENV_DIR_SNAP])
        /\ (prev # <<>> /\ prev[1].infura_id = infura_id) =>
               fs[ENV_DIR_SNAP] = prev[1].fs[ENV_DIR_SNAP]
        /\ \A k \in 1..Len(ENV_DIRS_BACKEND) :
               SplitLines(fs[ENV_DIRS_BACKEND[k]])[1] =
                   Assignment("WALLET_PRIVATE_KEY=", wallet_key)

\* C9 witness: two runs with the same Infura ID and different wallet keys
\* have both written the snap .env
C9_Witness ==
    /\ Written(ENV_DIR_SNAP)
    /\ prev # <<>>
    /\ prev[1].infura_id = infura_id
    /\ prev[1].wallet_key # wallet_key
    /\ infura_id # <<>>

============================================================================
